---- MODULE Spec2Model ----
(***************************************************************************)
(* Model of the Amazon MWS client library: lib/mws.js (createRequest,      *)
(* generateSignature) and lib/orders.js (the five Orders wrappers).        *)
(*                                                                         *)
(* JavaScript strings are TLA+ strings, read character by character with   *)
(* SubSeq.  A JavaScript value is a record with a "type" field (typeof).   *)
(* A JavaScript object is the sequence of its own enumerable properties    *)
(* in enumeration order: array-index keys first, ascending by number, then *)
(* the other keys in insertion order.                                      *)
(***************************************************************************)
EXTENDS Integers, Sequences, FiniteSets

(***************************************************************************)
(* Characters.  The character table is printable ASCII plus line feed.     *)
(***************************************************************************)
PrintableLow ==
  " !\"#$%&'()*+,-./0123456789:;<=>?@ABCDEFGHIJKLMNOPQRSTUVWXYZ[\\]^_"

PrintableHigh == "abcdefghijklmnopqrstuvwxyz{|}~"

CharAt(s, i) == SubSeq(s, i, i)

\* F applied to the value of e, e being evaluated once.
Let(e, F(_)) == CHOOSE r \in {F(v) : v \in {e}} : TRUE

\* Code units 32..95, 97..126 and 10 (the grave accent, 96, is not in the table).
Chars ==
  {CharAt(PrintableLow, i) : i \in 1..Len(PrintableLow)}
    \cup {CharAt(PrintableHigh, i) : i \in 1..Len(PrintableHigh)}
    \cup {"\n"}

\* The UTF-16 code unit of a character.
CharCode ==
  [c \in Chars |->
     IF c = "\n" THEN 10
     ELSE IF \E i \in 1..Len(PrintableLow) : CharAt(PrintableLow, i) = c
          THEN 31 + (CHOOSE i \in 1..Len(PrintableLow) : CharAt(PrintableLow, i) = c)
          ELSE 96 + (CHOOSE i \in 1..Len(PrintableHigh) : CharAt(PrintableHigh, i) = c)]

InTable(n) == n = 10 \/ (n >= 32 /\ n <= 95) \/ (n >= 97 /\ n <= 126)

\* String.fromCharCode for a code unit of the table.
FromCharCode(n) ==
  IF n = 10 THEN "\n"
  ELSE IF n <= 95 THEN CharAt(PrintableLow, n - 31)
  ELSE CharAt(PrintableHigh, n - 96)

Digits == "0123456789"

IsDigit(c) == CharCode[c] >= 48 /\ CharCode[c] <= 57

IsAlnum(c) ==
  LET n == CharCode[c]
  IN  \/ (n >= 48 /\ n <= 57)
      \/ (n >= 65 /\ n <= 90)
      \/ (n >= 97 /\ n <= 122)

\* Number.prototype.toString for a non-negative integer.
RECURSIVE ToDecimal(_)
ToDecimal(n) ==
  IF n < 10 THEN CharAt(Digits, n + 1)
  ELSE ToDecimal(n \div 10) \o CharAt(Digits, (n % 10) + 1)

\* The positions of s at which the substring t starts.
Occurrences(s, t) ==
  {i \in 1..(Len(s) - Len(t) + 1) : SubSeq(s, i, i + Len(t) - 1) = t}

Contains(s, t) == Occurrences(s, t) /= {}

Min(S) == CHOOSE x \in S : \A y \in S : x <= y

\* String.prototype.replace(/c/g, r) for a one-character pattern c.
RECURSIVE ReplaceAll(_, _, _)
ReplaceAll(s, c, r) ==
  Let(Occurrences(s, c), LAMBDA at :
    IF at = {} THEN s
    ELSE SubSeq(s, 1, Min(at) - 1) \o r
           \o ReplaceAll(SubSeq(s, Min(at) + 1, Len(s)), c, r))

\* Array.prototype.join.
RECURSIVE Join(_, _)
Join(parts, sep) ==
  IF Len(parts) = 0 THEN ""
  ELSE IF Len(parts) = 1 THEN parts[1]
  ELSE LET h == Len(parts) \div 2
       IN  Join(SubSeq(parts, 1, h), sep) \o sep
             \o Join(SubSeq(parts, h + 1, Len(parts)), sep)

\* String.prototype.split for a one-character separator.
RECURSIVE Split(_, _)
Split(s, c) ==
  Let(Occurrences(s, c), LAMBDA at :
    IF at = {} THEN <<s>>
    ELSE <<SubSeq(s, 1, Min(at) - 1)>> \o Split(SubSeq(s, Min(at) + 1, Len(s)), c))

\* The comparison of Array.prototype.sort without a comparator: code units,
\* left to right, a proper prefix first.
StrLess(a, b) ==
  LET m == IF Len(a) < Len(b) THEN Len(a) ELSE Len(b)
      differ == {i \in 1..m : CharAt(a, i) /= CharAt(b, i)}
  IN  IF differ = {} THEN Len(a) < Len(b)
      ELSE CharCode[CharAt(a, Min(differ))] < CharCode[CharAt(b, Min(differ))]

\* Array.prototype.sort() of an array of distinct strings.
SortStrings(keys) ==
  Let([i \in 1..Len(keys) |->
         Cardinality({j \in 1..Len(keys) : StrLess(keys[j], keys[i])}) + 1],
      LAMBDA rank :
        [p \in 1..Len(keys) |-> keys[CHOOSE i \in 1..Len(keys) : rank[i] = p]])

(***************************************************************************)
(* Percent-encoding.                                                       *)
(***************************************************************************)
HexDigits == "0123456789ABCDEF"

HexLower == "0123456789abcdef"

HexChars ==
  {CharAt(HexDigits, i) : i \in 1..Len(HexDigits)}
    \cup {CharAt(HexLower, i) : i \in 1..Len(HexLower)}

IsHex(c) == c \in HexChars

HexVal(c) ==
  IF Contains(HexDigits, c) THEN Min(Occurrences(HexDigits, c)) - 1
  ELSE Min(Occurrences(HexLower, c)) - 1

Hex2(n) == CharAt(HexDigits, (n \div 16) + 1) \o CharAt(HexDigits, (n % 16) + 1)

\* The characters encodeURIComponent and querystring.escape leave alone.
UnreservedChars ==
  {c \in Chars : IsAlnum(c)} \cup {"-", "_", ".", "!", "~", "*", "'", "(", ")"}

Unreserved(c) == c \in UnreservedChars

\* encodeURIComponent (and querystring.escape, which escapes the same set).
RECURSIVE encodeURIComponent(_)
encodeURIComponent(s) ==
  Let({i \in 1..Len(s) : ~Unreserved(CharAt(s, i))}, LAMBDA at :
    IF at = {} THEN s
    ELSE SubSeq(s, 1, Min(at) - 1) \o "%" \o Hex2(CharCode[CharAt(s, Min(at))])
           \o encodeURIComponent(SubSeq(s, Min(at) + 1, Len(s))))

\* decodeURIComponent: [ok |-> TRUE, str |-> the decoded string], or
\* [ok |-> FALSE] where it raises URIError (a "%" not followed by two hex
\* digits).  Escapes of code units outside the character table do not occur
\* in the inputs of this model; they are reported as not ok.
RECURSIVE decodeURIComponent(_)
decodeURIComponent(s) ==
  Let(Occurrences(s, "%"), LAMBDA at :
    IF at = {} THEN [ok |-> TRUE, str |-> s]
    ELSE Let(Min(at), LAMBDA i :
      IF i + 2 > Len(s) THEN [ok |-> FALSE]
      ELSE IF ~(IsHex(CharAt(s, i + 1)) /\ IsHex(CharAt(s, i + 2)))
           THEN [ok |-> FALSE]
      ELSE Let(decodeURIComponent(SubSeq(s, i + 3, Len(s))), LAMBDA rest :
        LET n == 16 * HexVal(CharAt(s, i + 1)) + HexVal(CharAt(s, i + 2))
        IN  IF ~InTable(n) \/ ~rest.ok THEN [ok |-> FALSE]
            ELSE [ok |-> TRUE,
                  str |-> SubSeq(s, 1, i - 1) \o FromCharCode(n) \o rest.str])))

(***************************************************************************)
(* JavaScript values and objects.                                          *)
(***************************************************************************)
Undefined == [type |-> "undefined"]

Null == [type |-> "null"]

Str(s) == [type |-> "string", str |-> s]

Bool(b) == [type |-> "boolean", val |-> b]

\* The caller's completion callback.
Callback == [type |-> "function"]

\* An object value; props is the sequence of its properties [k, v].
Obj(props) == [type |-> "object", props |-> props]

\* ToStr, as string concatenation and template literals apply it.
ToStr(v) ==
  CASE v.type = "string" -> v.str
    [] v.type = "undefined" -> "undefined"
    [] v.type = "null" -> "null"
    [] v.type = "boolean" -> (IF v.val THEN "true" ELSE "false")
    [] v.type = "function" -> "function () {}"
    [] OTHER -> "[object Object]"

\* ToBoolean.
Truthy(v) ==
  CASE v.type = "string" -> v.str /= ""
    [] v.type = "boolean" -> v.val
    [] v.type \in {"undefined", "null"} -> FALSE
    [] OTHER -> TRUE

AllDigits(k) == \A i \in 1..Len(k) : IsDigit(CharAt(k, i))

\* An array index: the canonical decimal form of an integer below 2^32 - 1.
IsArrayIndex(k) ==
  /\ Len(k) >= 1
  /\ Len(k) <= 10
  /\ AllDigits(k)
  /\ (Len(k) > 1 => CharAt(k, 1) /= "0")
  /\ (Len(k) = 10 => ~StrLess("4294967294", k))

\* Numeric order of two array indices.
IndexLess(a, b) == Len(a) < Len(b) \/ (Len(a) = Len(b) /\ StrLess(a, b))

ObjKeys(o) == [i \in 1..Len(o) |-> o[i].k]

ObjHas(o, k) == \E i \in 1..Len(o) : o[i].k = k

ObjGet(o, k) ==
  IF ObjHas(o, k) THEN o[CHOOSE i \in 1..Len(o) : o[i].k = k].v ELSE Undefined

\* o[k] = v.  An existing property keeps its place; a new array index goes
\* among the array indices by number, any other new key goes last.
ObjSet(o, k, v) ==
  IF ObjHas(o, k)
  THEN [i \in 1..Len(o) |-> IF o[i].k = k THEN [k |-> k, v |-> v] ELSE o[i]]
  ELSE IF IsArrayIndex(k)
       THEN LET before ==
                  Cardinality({i \in 1..Len(o) :
                                 IsArrayIndex(o[i].k) /\ IndexLess(o[i].k, k)})
            IN  SubSeq(o, 1, before) \o <<[k |-> k, v |-> v]>>
                  \o SubSeq(o, before + 1, Len(o))
       ELSE Append(o, [k |-> k, v |-> v])

\* delete o[k].
ObjDelete(o, k) ==
  IF ObjHas(o, k)
  THEN LET i == CHOOSE j \in 1..Len(o) : o[j].k = k
       IN  SubSeq(o, 1, i - 1) \o SubSeq(o, i + 1, Len(o))
  ELSE o

\* _.extend(dst, src): every property of src is assigned to dst, in src's order.
RECURSIVE Extend(_, _)
Extend(dst, src) ==
  IF Len(src) = 0 THEN dst
  ELSE Extend(ObjSet(dst, src[1].k, src[1].v), Tail(src))

\* An object literal { k1: v1, ... }, given as the sequence of its pairs.
ObjectLiteral(pairs) == Extend(<<>>, pairs)

\* _.has(obj, key).
Has(obj, key) == obj.type = "object" /\ ObjHas(obj.props, key)

(***************************************************************************)
(* lib/mws.js                                                              *)
(***************************************************************************)
endpoint ==
  [Products |-> [type |-> "/Products/", version |-> "2011-10-01"],
   Sellers |-> [type |-> "/Sellers/", version |-> "2011-07-01"],
   Orders |-> [type |-> "/Orders/", version |-> "2013-09-01"],
   Feeds |-> [type |-> "/Feeds/", version |-> "2009-01-01"],
   Reports |-> [type |-> "/Reports/", version |-> "2009-01-01"],
   Recommendations |-> [type |-> "/Recommendations/", version |-> "2013-04-01"],
   FulfillmentInventory |-> [type |-> "/FulfillmentInventory/", version |-> "2010-10-01"]]

Base64Alphabet ==
  "ABCDEFGHIJKLMNOPQRSTUVWXYZabcdefghijklmnopqrstuvwxyz0123456789+/"

\* A digest written in base64.  The hash functions are stood for by a
\* 24-bit checksum of the hashed text, in four base64 characters.
RECURSIVE CodeSum(_)
CodeSum(s) ==
  IF Len(s) = 0 THEN 0
  ELSE IF Len(s) = 1 THEN CharCode[s]
  ELSE LET h == Len(s) \div 2
       IN  (7 * CodeSum(SubSeq(s, 1, h)) + CodeSum(SubSeq(s, h + 1, Len(s))))
             % 16777216

DigestBase64(text) ==
  Let(CodeSum(text), LAMBDA n :
    CharAt(Base64Alphabet, ((n \div 262144) % 64) + 1)
      \o CharAt(Base64Alphabet, ((n \div 4096) % 64) + 1)
      \o CharAt(Base64Alphabet, ((n \div 64) % 64) + 1)
      \o CharAt(Base64Alphabet, (n % 64) + 1))

\* crypto.createHmac("sha256", key): the keyed hash, no data yet.
createHmac(key) == [key |-> key, data |-> ""]

\* hmac.update(data).digest("base64"): a base64 text padded with "=", a
\* function of the key and the data.
hmacDigest(h, data) == DigestBase64(h.key \o "\n" \o data) \o "="

\* The array assigned to the un-scoped variable joinedParameters before the
\* pairs are pushed.  The variant keeps the array of the call before.
KeptJoinedParameters(old) == old

NewJoinedParameters(old) == <<>>

\* key matches /.*Date.*/ ; key matches /.*Created.*/
TestDate(key) == Contains(key, "Date")

TestCreated(key) == Contains(key, "Created")

\* The loop over the keys of sorted: substitutes the colons of the Date and
\* Created values and pushes key=value.  A value that is not a string has no
\* replace method: the loop raises TypeError there.
RECURSIVE JoinLoop(_, _, _)
JoinLoop(sorted, i, joined) ==
  IF i > Len(sorted) THEN [threw |-> FALSE, joined |-> joined]
  ELSE LET key == sorted[i].k
           v0 == sorted[i].v
       IN  IF TestDate(key) /\ v0.type /= "string"
           THEN [threw |-> TRUE, joined |-> joined]
           ELSE LET v1 == IF TestDate(key)
                          THEN Str(ReplaceAll(v0.str, ":", "%3A")) ELSE v0
                IN  IF TestCreated(key) /\ v1.type /= "string"
                    THEN [threw |-> TRUE, joined |-> joined]
                    ELSE LET v2 == IF TestCreated(key)
                                   THEN Str(ReplaceAll(v1.str, ":", "%3A")) ELSE v1
                         IN  JoinLoop(sorted, i + 1,
                                      Append(joined, key \o "=" \o ToStr(v2)))

\* The five replacements made over the whole string to sign.
EscapeStringToSign(s) ==
  ReplaceAll(ReplaceAll(ReplaceAll(ReplaceAll(ReplaceAll(s,
    "'", "%27"), "*", "%2A"), "(", "%28"), ")", "%29"), " ", "%20")

\* The end of generateSignature, from the joined pairs on.
SignJoined(config, ep, h, joined) ==
  Let(EscapeStringToSign(
        Join(<<"POST", ToStr(ObjGet(config, "AmazonServicesURL")),
               endpoint[ep].type \o endpoint[ep].version,
               Join(joined, "&")>>, "\n")),
      LAMBDA stringToSign :
        [threw |-> FALSE,
         hmac |-> [h EXCEPT !.data = stringToSign],
         joinedParameters |-> joined,
         stringToSign |-> stringToSign,
         result |-> hmacDigest(h, stringToSign)])

\* generateSignature(config, params, ep), run with the un-scoped variables
\* hmac and joinedParameters holding g.hmac and g.joinedParameters.  The
\* result carries the values they hold afterwards.  threw: params.Timestamp
\* or a Date or Created value is not a string, and replace raises TypeError.
generateSignature(config, params, ep, g) ==
  LET h == createHmac(ToStr(ObjGet(config, "SecretKey")))
      keys == SortStrings(ObjKeys(params))
      sorted0 == ObjectLiteral([i \in 1..Len(keys) |->
                                  [k |-> keys[i], v |-> ObjGet(params, keys[i])]])
      ts == ObjGet(params, "Timestamp")
  IN  IF ts.type /= "string"
      THEN [threw |-> TRUE, hmac |-> h, joinedParameters |-> g.joinedParameters]
      ELSE Let(JoinLoop(ObjSet(sorted0, "Timestamp",
                               Str(ReplaceAll(ts.str, ":", "%3A"))),
                        1, NewJoinedParameters(g.joinedParameters)),
               LAMBDA loop :
                 IF loop.threw
                 THEN [threw |-> TRUE, hmac |-> h, joinedParameters |-> loop.joined]
                 ELSE SignJoined(config, ep, h, loop.joined))

\* crypto.createHash('md5').update(body).digest("base64").
md5Digest(body) == DigestBase64(body) \o "=="

\* tstamp.replace(/\..+/, ''): drops the first "." that has a character
\* after it, and everything after it.
DropFraction(iso) ==
  LET at == {i \in Occurrences(iso, ".") : i < Len(iso)}
  IN  IF at = {} THEN iso ELSE SubSeq(iso, 1, Min(at) - 1)

\* stringifyPrimitive of querystring.
StringifyPrimitive(v) ==
  IF v.type \in {"string", "boolean"} THEN ToStr(v) ELSE ""

\* qs.stringify(obj), for an object without array values.
qsStringify(o) ==
  Join([i \in 1..Len(o) |->
          encodeURIComponent(o[i].k) \o "="
            \o encodeURIComponent(StringifyPrimitive(o[i].v))], "&")

orderedKeys ==
  <<"AWSAccessKeyId", "Action", "SellerId", "SignatureVersion", "Version",
    "Timestamp", "Signature", "SignatureMethod", "NextToken">>

\* The loop over orderedKeys: each value is encoded unless decoding changes
\* it.  decodeURIComponent raises URIError on a malformed value.
RECURSIVE OrderedLoop(_, _, _)
OrderedLoop(paramObj, i, acc) ==
  IF i > Len(orderedKeys) THEN [threw |-> FALSE, str |-> acc]
  ELSE LET key == orderedKeys[i]
           param == ObjGet(paramObj, key)
           decoded == decodeURIComponent(ToStr(param))
       IN  IF ~decoded.ok THEN [threw |-> TRUE]
           ELSE LET same == param.type = "string" /\ decoded.str = param.str
                    sent == IF same THEN encodeURIComponent(param.str) ELSE ToStr(param)
                IN  OrderedLoop(paramObj, i + 1,
                                IF i = 1 THEN key \o "=" \o sent
                                ELSE acc \o "&" \o key \o "=" \o sent)

\* The parameters of the request: the fixed fields, extended by the
\* operation's parameters.
MergedParameters(params, tstamp, parameters) ==
  Extend(ObjectLiteral(<<
           [k |-> "Action", v |-> Str(params.action)],
           [k |-> "SellerId", v |-> ObjGet(params.config, "SellerId")],
           [k |-> "SignatureVersion", v |-> Str("2")],
           [k |-> "SignatureMethod", v |-> Str("HmacSHA256")],
           [k |-> "Timestamp", v |-> Str(tstamp)],
           [k |-> "Version", v |-> Str(endpoint[params.type].version)],
           [k |-> "AWSAccessKeyId", v |-> ObjGet(params.config, "AWSAccessKeyId")],
           [k |-> "MWSAuthToken", v |-> ObjGet(params.config, "MWSAuthToken")]>>),
         parameters)

\* The parameter string: qs.stringify, or the fixed order for the two
\* NextToken actions.
Stringified(action, paramObj) ==
  IF action \in {"ListOrdersByNextToken", "ListOrderItemsByNextToken"}
  THEN OrderedLoop(paramObj, 1, "")
  ELSE [threw |-> FALSE, str |-> qsStringify(paramObj)]

\* The request createRequest makes of the parameter string and the body.
HttpsRequest(params, stringifiedParamObj, body) ==
  [type |-> "request",
   host |-> ToStr(ObjGet(params.config, "AmazonServicesURL")),
   port |-> 443,
   path |-> endpoint[params.type].type \o endpoint[params.type].version
              \o "?" \o stringifiedParamObj,
   method |-> "POST",
   headers |-> [Host |-> ToStr(ObjGet(params.config, "AmazonServicesURL")),
                UserAgent |-> "mws-jsr/0.1.0 (Language=Javascript)",
                ContentType |-> "text/xml",
                ContentMD5 |-> md5Digest(body)],
   body |-> body]

\* createRequest(params, cb) up to req.end(), run at the instant now (the
\* value of new Date().toISOString()) with the un-scoped variables as in g.
\* threw: an exception left the function and no request was made.
createRequest(params, now, g) ==
  LET feed == ObjGet(params.parameters, "FeedContents")
      upload == Truthy(feed)
      feedBody == IF feed.type = "object" THEN ObjGet(feed.props, "_BODY_")
                  ELSE Undefined
      parameters == IF upload THEN ObjDelete(params.parameters, "FeedContents")
                    ELSE params.parameters
      tstamp == DropFraction(now) \o "Z"
  IN  Let(MergedParameters(params, tstamp, parameters), LAMBDA merged :
        Let(generateSignature(params.config, merged, params.type, g), LAMBDA sig :
          IF sig.threw
          THEN [threw |-> TRUE,
                g |-> [hmac |-> sig.hmac, joinedParameters |-> sig.joinedParameters]]
          ELSE
            Let(ObjSet(merged, "Signature", Str(sig.result)), LAMBDA paramObj :
              Let(Stringified(params.action, paramObj), LAMBDA ordered :
                IF ordered.threw
                     \/ (upload /\ feedBody.type /= "string")
                THEN [threw |-> TRUE,
                      g |-> [hmac |-> sig.hmac,
                             joinedParameters |-> sig.joinedParameters]]
                ELSE [threw |-> FALSE,
                      g |-> [hmac |-> sig.hmac,
                             joinedParameters |-> sig.joinedParameters],
                      paramObj |-> paramObj,
                      request |->
                        HttpsRequest(params, ordered.str,
                                     IF upload THEN feedBody.str ELSE ordered.str)]))))

(***************************************************************************)
(* lib/orders.js                                                           *)
(***************************************************************************)
\* The head of every wrapper: the flag may be left out, the callback then
\* stands in its place.  go = FALSE: console.warn and return.
ShiftArguments(xml, cb) ==
  IF xml.type = "function" THEN [go |-> TRUE, xml |-> Bool(FALSE), cb |-> xml]
  ELSE IF xml.type = "undefined" THEN [go |-> FALSE, xml |-> xml, cb |-> cb]
  ELSE [go |-> TRUE, xml |-> xml, cb |-> cb]

\* A call cb(err, data) of the value cb: a value that is no function raises
\* TypeError; the caller's callback is entered, and raises if env.raises.
Invoke(cb, err, data, env) ==
  IF cb.type /= "function" THEN [log |-> <<>>, raised |-> TRUE]
  ELSE [log |-> <<[err |-> err, data |-> data]>>, raised |-> env.raises]

ErrorObject(msg) == Obj(<<[k |-> "Error", v |-> Str(msg)]>>)

\* The wrapper logged the warning and returned.
Warned(env) ==
  [status |-> "returned", warnings |-> 1, cbLog |-> <<>>,
   created |-> Null, request |-> Null, g |-> env.g]

\* The wrapper passed the error object to the callback and returned.
Rejected(cb, msg, env) ==
  LET call == Invoke(cb, ErrorObject(msg), Null, env)
  IN  [status |-> IF call.raised THEN "threw" ELSE "returned",
       warnings |-> 0, cbLog |-> call.log,
       created |-> Null, request |-> Null, g |-> env.g]

\* The wrapper called mws.createRequest(params, function(err, data) {...}).
Delegated(params, env) ==
  Let(createRequest(params, env.now, env.g), LAMBDA made :
    [status |-> IF made.threw THEN "threw" ELSE "pending",
     warnings |-> 0, cbLog |-> <<>>,
     created |-> params,
     request |-> IF made.threw THEN Null ELSE made.request,
     g |-> made.g])

GetServiceStatus(config, xml, cb, env) ==
  LET a == ShiftArguments(xml, cb)
  IN  IF ~a.go THEN Warned(env)
      ELSE Delegated([action |-> "GetServiceStatus", config |-> config,
                      parameters |-> <<>>, type |-> "Orders",
                      xml |-> a.xml, cb |-> a.cb], env)

\* key matches /MarketplaceId.Id.[1-9]+/
TestMarketplaceId(key) ==
  \E i \in 1..Len(key) :
    /\ i + 17 <= Len(key)
    /\ SubSeq(key, i, i + 12) = "MarketplaceId"
    /\ CharAt(key, i + 13) /= "\n"
    /\ SubSeq(key, i + 14, i + 15) = "Id"
    /\ CharAt(key, i + 16) /= "\n"
    /\ Contains("123456789", CharAt(key, i + 17))

\* The loop is left once counter, incremented, is over 20.  The variant
\* leaves it one key earlier.
BreakLoopOneEarly(counter) == counter >= 20

BreakLoop(counter) == counter > 20

\* The loop of ListOrders over the keys of MarketplaceIdList, from the i-th.
RECURSIVE MarketplaceLoop(_, _, _, _)
MarketplaceLoop(list, i, counter, parameters) ==
  IF i > Len(list) THEN parameters
  ELSE LET key == list[i].k
           next == IF TestMarketplaceId(key)
                   THEN ObjSet(parameters, key, list[i].v) ELSE parameters
       IN  IF BreakLoop(counter + 1) THEN next
           ELSE MarketplaceLoop(list, i + 1, counter + 1, next)

ListOrders(config, params, xml, cb, env) ==
  LET a == ShiftArguments(xml, cb)
  IN  IF ~a.go THEN Warned(env)
      ELSE IF ~Has(params, "MarketplaceIdList") \/ ~Has(params, "CreatedAfter")
                \/ ~Has(params, "CreatedBefore")
      THEN Rejected(a.cb,
             "You need to pass parameter MarketplaceId and CreatedAfter and CreatedBefore",
             env)
      ELSE
        LET first == ObjectLiteral(<<
              [k |-> "CreatedAfter", v |-> ObjGet(params.props, "CreatedAfter")],
              [k |-> "CreatedBefore", v |-> ObjGet(params.props, "CreatedBefore")]>>)
            list == ObjGet(params.props, "MarketplaceIdList")
            parameters == IF list.type = "object"
                          THEN MarketplaceLoop(list.props, 1, 1, first)
                          ELSE first
        IN  Delegated([action |-> "ListOrders", config |-> config,
                       parameters |-> parameters, type |-> "Orders",
                       xml |-> a.xml, cb |-> a.cb], env)

ListOrdersByNextToken(config, params, xml, cb, env) ==
  LET a == ShiftArguments(xml, cb)
  IN  IF ~a.go THEN Warned(env)
      ELSE IF ~Has(params, "NextToken")
      THEN Rejected(a.cb, "You need to pass parameter NextToken", env)
      ELSE
        LET parameters == ObjectLiteral(<<
              [k |-> "NextToken",
               v |-> Str(encodeURIComponent(ToStr(ObjGet(params.props, "NextToken"))))]>>)
        IN  Delegated([action |-> "ListOrdersByNextToken", config |-> config,
                       parameters |-> parameters, type |-> "Orders",
                       xml |-> a.xml, cb |-> a.cb], env)

ListOrderItems(config, params, xml, cb, env) ==
  LET a == ShiftArguments(xml, cb)
  IN  IF ~a.go THEN Warned(env)
      ELSE IF ~Has(params, "AmazonOrderId")
      THEN Rejected(a.cb, "You need to pass parameter AmazonOrderId", env)
      ELSE
        LET parameters == ObjectLiteral(<<
              [k |-> "AmazonOrderId", v |-> ObjGet(params.props, "AmazonOrderId")]>>)
        IN  Delegated([action |-> "ListOrderItems", config |-> config,
                       parameters |-> parameters, type |-> "Orders",
                       xml |-> a.xml, cb |-> a.cb], env)

ListOrderItemsByNextToken(config, params, xml, cb, env) ==
  LET a == ShiftArguments(xml, cb)
  IN  IF ~a.go THEN Warned(env)
      ELSE IF ~Has(params, "NextToken")
      THEN Rejected(a.cb, "You need to pass parameter NextToken", env)
      ELSE Delegated([action |-> "ListOrderItemsByNextToken", config |-> config,
                      parameters |-> params.props, type |-> "Orders",
                      xml |-> a.xml, cb |-> a.cb], env)

\* xml.parse(data) of pixl-xml: the parsed document, or ok = FALSE where the
\* parser raises.  A document is an element with its closing tag.
xmlParse(data) ==
  IF data = "<Status>GREEN</Status>"
  THEN [ok |-> TRUE, value |-> Obj(<<[k |-> "Status", v |-> Str("GREEN")]>>)]
  ELSE [ok |-> FALSE]

ParseError == [type |-> "object", error |-> "Parse Error"]

\* The exception the completion callback raised.
CallbackError == [type |-> "object", error |-> "raised by the callback"]

\* The 'end' listener of the response, data being the collected body.
\* params is the argument createRequest was called with; its cb stands for
\* the wrapper's function(err, data) { cb(err, data); }.
\* uncaught: an exception left the listener.
OnEnd(params, data, env) ==
  IF params.xml = Bool(FALSE)
  THEN LET parsed == xmlParse(data)
       IN  IF parsed.ok
           THEN LET c1 == Invoke(params.cb, Null, parsed.value, env)
                IN  IF c1.raised
                    THEN LET c2 == Invoke(params.cb, CallbackError, Str(data), env)
                         IN  [log |-> c1.log \o c2.log, uncaught |-> c2.raised]
                    ELSE [log |-> c1.log, uncaught |-> FALSE]
           ELSE LET c == Invoke(params.cb, ParseError, Str(data), env)
                IN  [log |-> c.log, uncaught |-> c.raised]
  ELSE LET c == Invoke(params.cb, Null, Str(data), env)
       IN  [log |-> c.log, uncaught |-> c.raised]

(***************************************************************************)
(* The inputs of the model.                                                *)
(***************************************************************************)
MaxListLen == 25

MaxOtherKeys == 1

MaxShortList == 2

MaxExtraKeys == 2

Config(token) ==
  ObjectLiteral(<<[k |-> "AmazonServicesURL", v |-> Str("mws.amazonservices.com")],
                  [k |-> "SellerId", v |-> Str("A1")],
                  [k |-> "AWSAccessKeyId", v |-> Str("K1")],
                  [k |-> "SecretKey", v |-> Str("S1")]>>
                  \o (IF token THEN <<[k |-> "MWSAuthToken", v |-> Str("amzn.mws.4ea3")]>>
                      ELSE <<>>))

Configs == {Config(TRUE), Config(FALSE)}

\* Values of new Date().toISOString().
Instants == {"2020-01-01T00:00:00.000Z", "2021-06-30T23:59:59.999Z"}

XmlArguments == {Undefined, Bool(TRUE), Bool(FALSE), Callback}

CbArguments == {Undefined, Callback}

Bodies == {"<Status>GREEN</Status>", "<Status>GREEN"}

\* A MarketplaceIdList of n keys; the keys at the positions in others do not
\* match MarketplaceId.Id.N, the rest do.
MarketplaceIdList(n, others) ==
  Obj(ObjectLiteral([i \in 1..n |->
        [k |-> IF i \in others THEN "Marketplace." \o ToDecimal(i)
               ELSE "MarketplaceId.Id." \o ToDecimal(i),
         v |-> Str("M" \o ToDecimal(i))]]))

\* The runs of at most maxOthers neighbouring positions among 1..n, and the
\* empty set.
Positions(n, maxOthers) ==
  {{}} \cup {(p..(p + k - 1)) \cap (1..n) : p \in 1..n, k \in 1..maxOthers}

Lists(maxLen, maxOthers) ==
  UNION {{MarketplaceIdList(n, others) : others \in Positions(n, maxOthers)} :
           n \in 0..maxLen}

\* The ListOrders parameters with the keys in present, list being the list.
ListOrdersParams(present, list) ==
  Obj(ObjectLiteral(
    (IF "CreatedAfter" \in present
     THEN <<[k |-> "CreatedAfter", v |-> Str("2020-01-01T00:00:00Z")]>> ELSE <<>>)
    \o (IF "CreatedBefore" \in present
        THEN <<[k |-> "CreatedBefore", v |-> Str("2020-02-01T00:00:00Z")]>> ELSE <<>>)
    \o (IF "MarketplaceIdList" \in present
        THEN <<[k |-> "MarketplaceIdList", v |-> list]>> ELSE <<>>)))

AllListOrdersKeys == {"CreatedAfter", "CreatedBefore", "MarketplaceIdList"}

ShortListParams ==
  {ListOrdersParams(AllListOrdersKeys, l) : l \in Lists(MaxShortList, MaxShortList)}
    \cup {ListOrdersParams(AllListOrdersKeys \ {k}, MarketplaceIdList(1, {})) :
            k \in AllListOrdersKeys}
    \cup {Obj(<<>>)}

LongListParams ==
  {ListOrdersParams(AllListOrdersKeys, l) : l \in Lists(MaxListLen, MaxOtherKeys)}

Tokens == {"abc", "a/b+c=", "a%2Fb", "100%", "%41&Foo=1"}

NextTokenParams ==
  {Obj(<<>>)}
    \cup {Obj(ObjectLiteral(<<[k |-> "NextToken", v |-> Str(t)]>>)) : t \in Tokens}
    \cup {Obj(ObjectLiteral(<<[k |-> "NextToken", v |-> Str("abc")],
                              [k |-> "Action", v |-> Str("ListOrders")]>>)),
          Obj(ObjectLiteral(<<[k |-> "SellerId", v |-> Str("B2")],
                              [k |-> "NextToken", v |-> Str("abc")],
                              [k |-> "MaxResultsPerPage", v |-> Str("10")]>>))}

OrderItemsParams ==
  {Obj(<<>>),
   Obj(ObjectLiteral(<<[k |-> "AmazonOrderId", v |-> Str("902-3159896-1390916")]>>)),
   Obj(ObjectLiteral(<<[k |-> "AmazonOrderId", v |-> Str("902-3159896-1390916")],
                       [k |-> "Action", v |-> Str("ListOrders")]>>))}

(***************************************************************************)
(* The state.                                                              *)
(***************************************************************************)
VARIABLES
  call,              \* the wrapper call made: its name and arguments
  status,            \* "idle", "returned", "threw", "pending", "ended", "failed"
  warnings,          \* the number of console.warn lines of the call
  cbLog,             \* the invocations [err, data] of the caller's callback
  uncaught,          \* an exception left an event listener
  created,           \* the argument of mws.createRequest, or Null
  request,           \* the HTTPS request written and ended, or Null
  hmac,              \* the un-scoped variable hmac of generateSignature
  joinedParameters,  \* the un-scoped variable joinedParameters
  sigLast,           \* the latest direct generateSignature call and its result
  sigRef             \* an earlier direct generateSignature call and its result

vars ==
  <<call, status, warnings, cbLog, uncaught, created, request, hmac,
    joinedParameters, sigLast, sigRef>>

Init ==
  /\ call = [wrapper |-> "none"]
  /\ status = "idle"
  /\ warnings = 0
  /\ cbLog = <<>>
  /\ uncaught = FALSE
  /\ created = Null
  /\ request = Null
  /\ hmac = Undefined
  /\ joinedParameters = <<>>
  /\ sigLast = Null
  /\ sigRef = Null

Env(raises, now) ==
  [raises |-> raises, now |-> now,
   g |-> [hmac |-> hmac, joinedParameters |-> joinedParameters]]

\* The state after the wrapper call c with the outcome out.
Returned(c, out) ==
  /\ call' = c
  /\ status' = out.status
  /\ warnings' = out.warnings
  /\ cbLog' = out.cbLog
  /\ uncaught' = FALSE
  /\ created' = out.created
  /\ request' = out.request
  /\ hmac' = out.g.hmac
  /\ joinedParameters' = out.g.joinedParameters
  /\ UNCHANGED <<sigLast, sigRef>>

Arguments(wrapper, config, params, xml, cb, raises, now) ==
  [wrapper |-> wrapper, config |-> config, params |-> params, xml |-> xml,
   cb |-> cb, raises |-> raises, now |-> now]

GetServiceStatusCall ==
  /\ status = "idle"
  /\ \E config \in Configs, xml \in XmlArguments, cb \in CbArguments,
        raises \in BOOLEAN, now \in Instants :
       \E out \in {GetServiceStatus(config, xml, cb, Env(raises, now))} :
         Returned(Arguments("GetServiceStatus", config, Undefined, xml, cb, raises, now), out)

ListOrdersCall(paramsSet, configs, xmls, cbs, instants) ==
  /\ status = "idle"
  /\ \E config \in configs, params \in paramsSet, xml \in xmls, cb \in cbs,
        raises \in BOOLEAN, now \in instants :
       \E out \in {ListOrders(config, params, xml, cb, Env(raises, now))} :
         Returned(Arguments("ListOrders", config, params, xml, cb, raises, now), out)

ListOrdersByNextTokenCall ==
  /\ status = "idle"
  /\ \E config \in Configs, params \in NextTokenParams, xml \in XmlArguments,
        cb \in CbArguments, raises \in BOOLEAN, now \in Instants :
       \E out \in {ListOrdersByNextToken(config, params, xml, cb, Env(raises, now))} :
         Returned(Arguments("ListOrdersByNextToken", config, params, xml, cb, raises, now), out)

ListOrderItemsCall ==
  /\ status = "idle"
  /\ \E config \in Configs, params \in OrderItemsParams, xml \in XmlArguments,
        cb \in CbArguments, raises \in BOOLEAN, now \in Instants :
       \E out \in {ListOrderItems(config, params, xml, cb, Env(raises, now))} :
         Returned(Arguments("ListOrderItems", config, params, xml, cb, raises, now), out)

ListOrderItemsByNextTokenCall ==
  /\ status = "idle"
  /\ \E config \in Configs, params \in NextTokenParams, xml \in XmlArguments,
        cb \in CbArguments, raises \in BOOLEAN, now \in Instants :
       \E out \in {ListOrderItemsByNextToken(config, params, xml, cb, Env(raises, now))} :
         Returned(Arguments("ListOrderItemsByNextToken", config, params, xml, cb, raises, now), out)

\* The response ended: the 'end' listener runs with the collected body.
ResponseEnd ==
  /\ status = "pending"
  /\ \E data \in Bodies :
       \E done \in {OnEnd(created, data, Env(call.raises, call.now))} :
         /\ status' = "ended"
         /\ cbLog' = cbLog \o done.log
         /\ uncaught' = done.uncaught
  /\ UNCHANGED <<call, warnings, created, request, hmac, joinedParameters,
                 sigLast, sigRef>>

\* The connection failed before any response: the request emits 'error'.
\* createRequest registers no listener for it, so the event is an uncaught
\* exception and the response listener never runs.
ConnectionError ==
  /\ status = "pending"
  /\ status' = "failed"
  /\ uncaught' = TRUE
  /\ UNCHANGED <<call, warnings, cbLog, created, request, hmac,
                 joinedParameters, sigLast, sigRef>>

Next ==
  \/ GetServiceStatusCall
  \/ ListOrdersCall(ShortListParams, Configs, XmlArguments, CbArguments, Instants)
  \/ ListOrdersByNextTokenCall
  \/ ListOrderItemsCall
  \/ ListOrderItemsByNextTokenCall
  \/ ResponseEnd
  \/ ConnectionError

\* The library used through the Orders wrappers: one call, from its
\* arguments to the delivery of the response.
Spec == Init /\ [][Next]_vars

\* ListOrders called with marketplace lists of up to MaxListLen keys.
NextList ==
  \/ ListOrdersCall(LongListParams, {Config(TRUE)}, {Callback}, {Undefined},
                    {"2020-01-01T00:00:00.000Z"})
  \/ ResponseEnd
  \/ ConnectionError

SpecList == Init /\ [][NextList]_vars

(***************************************************************************)
(* generateSignature called directly, any number of times.                 *)
(***************************************************************************)
SignExtraKeys == {"StartDate", "9", "10"}

\* The order in which the caller's mapping holds its keys.
SignKeyOrder == <<"Timestamp", "StartDate", "9", "10">>

SignValues(k) ==
  CASE k = "Timestamp" -> {"2020-01-01T00:00:00Z", "2020-01-01T00%3A00%3A00Z"}
    [] k = "StartDate" -> {"1:2"}
    [] k = "9" -> {"a b", "a%20b"}
    [] OTHER -> {"x", "y"}

AllSignValues == UNION {SignValues(SignKeyOrder[i]) : i \in 1..Len(SignKeyOrder)}

\* The object whose keys are those of f, inserted in the order of SignKeyOrder.
SignMapping(f) ==
  LET IsKey(k) == k \in DOMAIN f
  IN  Let(SelectSeq(SignKeyOrder, IsKey), LAMBDA order :
        ObjectLiteral([i \in 1..Len(order) |->
                         [k |-> order[i], v |-> Str(f[order[i]])]]))

\* The mappings signed: Timestamp and at most MaxExtraKeys other keys, and
\* one mapping without Timestamp.
SignMappings ==
  UNION {{SignMapping(f) :
            f \in {h \in [extra \cup {"Timestamp"} -> AllSignValues] :
                     \A k \in DOMAIN h : h[k] \in SignValues(k)}} :
           extra \in {e \in SUBSET SignExtraKeys : Cardinality(e) <= MaxExtraKeys}}
    \cup {ObjectLiteral(<<[k |-> "StartDate", v |-> Str("1:2")]>>)}

SignConfig == Config(FALSE)

\* A direct call generateSignature(SignConfig, params, 'Orders').  sigRef
\* keeps an earlier call to compare the latest with; apart tells that other
\* calls ran between the two.
GenerateSignatureCall ==
  /\ \E params \in SignMappings :
       \E sig \in {generateSignature(SignConfig, params, "Orders",
                                     [hmac |-> hmac,
                                      joinedParameters |-> joinedParameters])} :
         /\ hmac' = sig.hmac
         /\ joinedParameters' = sig.joinedParameters
         /\ sigLast' = [type |-> "call", params |-> params, threw |-> sig.threw,
                        result |-> IF sig.threw THEN "" ELSE sig.result,
                        stringToSign |-> IF sig.threw THEN "" ELSE sig.stringToSign]
  /\ \/ sigRef' = IF sigLast = Null THEN Null
                  ELSE [call |-> sigLast, apart |-> FALSE]
     \/ /\ sigRef /= Null
        /\ sigRef' = [sigRef EXCEPT !.apart = TRUE]
  /\ UNCHANGED <<call, status, warnings, cbLog, uncaught, created, request>>

NextSign == GenerateSignatureCall

SpecSign == Init /\ [][NextSign]_vars

(***************************************************************************)
(* The properties.                                                         *)
(***************************************************************************)
\* The call was made with a completion callback, in the flag's place or
\* after it.
CallbackSupplied ==
  /\ call.wrapper /= "none"
  /\ (call.xml.type = "function" \/ call.cb.type = "function")

RequiredKeys(wrapper) ==
  CASE wrapper = "ListOrders" -> {"CreatedAfter", "CreatedBefore", "MarketplaceIdList"}
    [] wrapper \in {"ListOrdersByNextToken", "ListOrderItemsByNextToken"} -> {"NextToken"}
    [] wrapper = "ListOrderItems" -> {"AmazonOrderId"}
    [] OTHER -> {}

RequiredPresent ==
  \A k \in RequiredKeys(call.wrapper) :
    call.params.type = "object" /\ ObjHas(call.params.props, k)

NextTokenWrappers == {"ListOrdersByNextToken", "ListOrderItemsByNextToken"}

\* The parameter string of a request: what follows the "?" of its path.
QueryOf(req) ==
  SubSeq(req.path, Min(Occurrences(req.path, "?")) + 1, Len(req.path))

\* The key and the value of one key=value element of a parameter string.
KeyOf(pair) ==
  IF Occurrences(pair, "=") = {} THEN pair
  ELSE SubSeq(pair, 1, Min(Occurrences(pair, "=")) - 1)

ValueOf(pair) ==
  IF Occurrences(pair, "=") = {} THEN ""
  ELSE SubSeq(pair, Min(Occurrences(pair, "=")) + 1, Len(pair))

\* s with its percent-encoding undone, where it is well formed.
Decoded(s) ==
  Let(decodeURIComponent(s), LAMBDA d : IF d.ok THEN d.str ELSE s)

\* The key/value pairs of a sequence of key=value elements, decoded.
PairsOf(elements) ==
  {<<Decoded(KeyOf(elements[i])), Decoded(ValueOf(elements[i]))>> :
     i \in 1..Len(elements)}

TransmittedPairs ==
  {p \in PairsOf(Split(QueryOf(request), "&")) \cup PairsOf(Split(request.body, "&")) :
     p[1] /= "Signature"}

\* The pairs generateSignature joined into the string it signed.
SignedPairs == PairsOf(joinedParameters)

\* The keys of the transmitted parameter string, as a receiver reads them.
TransmittedKeys ==
  Let(Split(QueryOf(request), "&"), LAMBDA q : [i \in 1..Len(q) |-> KeyOf(q[i])])

\* C1: a wrapper call made with a completion callback has, once the response
\* has ended or the connection has failed, invoked the callback exactly once.
C1_CallbackExactlyOnce ==
  (CallbackSupplied /\ status \in {"ended", "failed"}) => Len(cbLog) = 1

\* C2: a wrapper called with a callback and without a required parameter
\* invokes the callback with a non-null error and a null result, and issues
\* no HTTPS request.
C2_MissingParameterRejected ==
  (CallbackSupplied /\ ~RequiredPresent /\ status /= "idle") =>
    /\ Len(cbLog) = 1
    /\ cbLog[1].err /= Null
    /\ cbLog[1].data = Null
    /\ request = Null

\* C3: the key/value pairs transmitted in the query string and the body of
\* an issued request, decoded and without Signature, are exactly the pairs
\* generateSignature signed.
C3_SignedIsTransmitted ==
  request /= Null => TransmittedPairs = SignedPairs

\* The value generateSignature is to join for key, as the canonical string
\* is described: colons replaced in Timestamp, Date and Created values.
CanonicalValue(key, value) ==
  IF key = "Timestamp" \/ Contains(key, "Date") \/ Contains(key, "Created")
  THEN ReplaceAll(value, ":", "%3A") ELSE value

\* C4: the canonical parameter string of a mapping lists every key once as
\* key=value, the keys in ascending lexicographic order, the colons of the
\* Timestamp, Date and Created values replaced by %3A and every other value
\* unchanged.
C4_CanonicalString ==
  (sigLast /= Null /\ ~sigLast.threw) =>
    /\ Len(joinedParameters) = Len(sigLast.params)
    /\ {KeyOf(joinedParameters[i]) : i \in 1..Len(joinedParameters)}
         = {sigLast.params[i].k : i \in 1..Len(sigLast.params)}
    /\ \A i \in 1..Len(joinedParameters) :
         \A j \in 1..Len(joinedParameters) :
           i < j => StrLess(KeyOf(joinedParameters[i]), KeyOf(joinedParameters[j]))
    /\ \A i \in 1..Len(joinedParameters) :
         ValueOf(joinedParameters[i])
           = CanonicalValue(KeyOf(joinedParameters[i]),
                            ObjGet(sigLast.params, KeyOf(joinedParameters[i])).str)
    /\ Contains(sigLast.stringToSign, EscapeStringToSign(Join(joinedParameters, "&")))

\* C5: the parameter string sent for ListOrdersByNextToken and
\* ListOrderItemsByNextToken holds exactly the keys of orderedKeys, each once
\* and in that order; the string sent for any other action does not.
C5_FixedKeyOrder ==
  request /= Null =>
    IF call.wrapper \in NextTokenWrappers
    THEN TransmittedKeys = orderedKeys
    ELSE TransmittedKeys /= orderedKeys

\* The NextToken value of the transmitted parameter string: NextToken is the
\* last key written, its value runs to the end of the string.
TransmittedToken ==
  Let(QueryOf(request), LAMBDA q :
    SubSeq(q, Min(Occurrences(q, "&NextToken=")) + Len("&NextToken="), Len(q)))

\* The token is percent-encoded already: decoding it changes it.
AlreadyEncoded(token) ==
  Let(decodeURIComponent(token), LAMBDA d : d.ok /\ d.str /= token)

\* C6: for both NextToken wrappers the token is encoded at most once on its
\* way into the transmitted string: a token that is already encoded is
\* transmitted unchanged, any other token is transmitted encoded once.
C6_TokenEncodedOnce ==
  (request /= Null /\ call.wrapper \in NextTokenWrappers) =>
    LET token == ObjGet(call.params.props, "NextToken").str
    IN  TransmittedToken
          = IF AlreadyEncoded(token) THEN token ELSE encodeURIComponent(token)

\* The key is MarketplaceId.Id.N, N a number from 1.
IsMarketplaceIdKey(key) ==
  /\ Len(key) > 17
  /\ SubSeq(key, 1, 17) = "MarketplaceId.Id."
  /\ AllDigits(SubSeq(key, 18, Len(key)))
  /\ CharAt(key, 18) /= "0"

\* The properties of the MarketplaceIdList the call was made with.
ListGiven == ObjGet(call.params.props, "MarketplaceIdList").props

MatchingOfList ==
  LET Matches(p) == IsMarketplaceIdKey(p.k)
  IN  SelectSeq(ListGiven, Matches)

\* The marketplace parameters ListOrders handed to createRequest.
ForwardedMarketplaces ==
  LET Marketplace(p) == p.k \notin {"CreatedAfter", "CreatedBefore"}
  IN  SelectSeq(created.parameters, Marketplace)

FirstOf(q, n) == SubSeq(q, 1, Min({n, Len(q)}))

\* a is b with some of its elements left out.
RECURSIVE IsSubsequence(_, _)
IsSubsequence(a, b) ==
  IF Len(a) = 0 THEN TRUE
  ELSE IF Len(b) = 0 THEN FALSE
  ELSE IF Head(a) = Head(b) THEN IsSubsequence(Tail(a), Tail(b))
  ELSE IsSubsequence(a, Tail(b))

C8_RequestOnlyWithCallback ==
  status /= "idle" =>
    /\ (~CallbackSupplied => (warnings > 0 /\ request = Null))
    /\ ((CallbackSupplied /\ RequiredPresent) => request /= Null)

\* The value of a fixed field, from the wrapper called, the configuration,
\* the clock and the endpoint table.
FixedFieldKeys ==
  {"Action", "SellerId", "SignatureVersion", "SignatureMethod", "Timestamp",
   "Version", "AWSAccessKeyId", "MWSAuthToken"}

FixedFieldValue(key) ==
  CASE key = "Action" -> call.wrapper
    [] key = "SignatureVersion" -> "2"
    [] key = "SignatureMethod" -> "HmacSHA256"
    [] key = "Timestamp" -> SubSeq(call.now, 1, 19) \o "Z"
    [] key = "Version" -> endpoint.Orders.version
    [] OTHER -> ToStr(ObjGet(call.config, key))

\* C9: in the signed and in the transmitted request every fixed field has
\* the value derived from the action, the configuration, the clock and the
\* endpoint table, whatever keys the caller's parameters hold.
C9_FixedFieldsReserved ==
  request /= Null =>
    \A p \in SignedPairs \cup TransmittedPairs :
      (/\ p[1] \in FixedFieldKeys
       /\ (p[1] = "MWSAuthToken" => ObjHas(call.config, "MWSAuthToken")))
        => p[2] = FixedFieldValue(p[1])

\* The two mappings hold the same keys and differ in the value of one.
DifferInOneValue(p, q) ==
  /\ ObjKeys(p) = ObjKeys(q)
  /\ Cardinality({i \in 1..Len(p) : p[i].v /= q[i].v}) = 1

\* The value of a key as it stands in the string to sign.
SignedForm(key, value) == EscapeStringToSign(CanonicalValue(key, value))

\* The two mappings are equal in every value once the signer has rewritten it.
SameSignedForms(p, q) ==
  \A i \in 1..Len(p) :
    SignedForm(p[i].k, p[i].v.str) = SignedForm(q[i].k, q[i].v.str)

\* Two calls with equal mappings have the same outcome, string to sign and
\* signature.
SignDeterministic ==
  (sigRef /= Null /\ sigRef.call.params = sigLast.params) =>
    /\ sigRef.call.threw = sigLast.threw
    /\ sigRef.call.stringToSign = sigLast.stringToSign
    /\ sigRef.call.result = sigLast.result

\* C10 as stated: generateSignature is deterministic, also across calls that
\* rewrite hmac and joinedParameters, and two mappings with the same keys
\* that differ in one value have different strings to sign.
C10_DeterministicAndSensitive ==
  /\ SignDeterministic
  /\ (sigRef /= Null /\ ~sigRef.call.threw /\ ~sigLast.threw
        /\ DifferInOneValue(sigRef.call.params, sigLast.params))
       => sigRef.call.stringToSign /= sigLast.stringToSign

\* C10: generateSignature is deterministic, also across calls that rewrite
\* hmac and joinedParameters, and two mappings with the same keys that differ
\* in one value have different strings to sign unless the two values are
\* equal once the signer has replaced the colons and escaped the value.
C10_DeterministicAndSensitiveUpToRewriting ==
  /\ SignDeterministic
  /\ (sigRef /= Null /\ ~sigRef.call.threw /\ ~sigLast.threw
        /\ DifferInOneValue(sigRef.call.params, sigLast.params)
        /\ ~SameSignedForms(sigRef.call.params, sigLast.params))
       => sigRef.call.stringToSign /= sigLast.stringToSign

\* The same mapping was signed twice, with other calls of generateSignature
\* between the two.
C10_SignedAgainAfterOthers ==
  /\ sigRef /= Null
  /\ sigRef.apart
  /\ ~sigLast.threw
  /\ sigRef.call.params = sigLast.params
  /\ joinedParameters /= <<>>
  /\ Len(sigLast.params) > 1

====
